---- MODULE Spec2Model ----
(***************************************************************************)
(* F1 driver lookup: the HTTP client wrapper (_make_request), the name     *)
(* search (search_drivers_by_name), the page launcher (open_in_browser)    *)
(* and the terminal menu loop (main) of project.py.                        *)
(*                                                                         *)
(* A Python str is a sequence of one-character strings.  A JSON value is   *)
(* a record tagged with its Python type, so that a call of a str method on *)
(* a value of another type is an AttributeError, as it is in Python.       *)
(***************************************************************************)
EXTENDS Integers, Sequences, FiniteSets, TLC

VARIABLES
    mode,      \* "cli": main() drives the search; "api": search called directly
    mpc,       \* position of the caller
    choice,    \* last menu choice read by main
    name,      \* the argument of search_drivers_by_name
    spc,       \* position inside search_drivers_by_name
    resp,      \* what the GET of the current call did
    data,      \* the value _make_request returned
    i,         \* index of the roster record the for loop looks at next
    drivers,   \* the list the for loop builds
    src,       \* for each element of drivers, the roster index it was built from
    result,    \* the value search_drivers_by_name returned
    reqs,      \* the session.get calls issued by the current call
    log,       \* the lines printed since the menu was shown / the call started
    exc,       \* the exception that escaped, "none" if none
    found,     \* main's local variable drivers
    k,         \* index of the driver main renders next
    opened     \* the pages handed to open_in_browser since the menu was shown

vars == <<mode, mpc, choice, name, spc, resp, data, i, drivers, src, result,
          reqs, log, exc, found, k, opened>>

----------------------------------------------------------------------------
(* Bounds *)

\* longest roster the server returns
MaxRoster == 3

----------------------------------------------------------------------------
(* Python str *)

UpperAlpha == <<"A","B","C","D","E","F","G","H","I","J","K","L","M",
                "N","O","P","Q","R","S","T","U","V","W","X","Y","Z">>
LowerAlpha == <<"a","b","c","d","e","f","g","h","i","j","k","l","m",
                "n","o","p","q","r","s","t","u","v","w","x","y","z">>

LowerChar(c) ==
    IF \E n \in DOMAIN UpperAlpha : UpperAlpha[n] = c
    THEN LowerAlpha[CHOOSE n \in DOMAIN UpperAlpha : UpperAlpha[n] = c]
    ELSE c

\* str.lower()
Lower(s) == [n \in DOMAIN s |-> LowerChar(s[n])]

\* the operator `needle in hay` on two str
Contains(needle, hay) ==
    \E off \in 0..(Len(hay) - Len(needle)) :
        SubSeq(hay, off + 1, off + Len(needle)) = needle

----------------------------------------------------------------------------
(* JSON values as Python sees them *)

Str(s)  == [t |-> "str",  v |-> s]
Num(s)  == [t |-> "int",  v |-> s]
Null    == [t |-> "null", v |-> <<>>]

\* a roster element: a dict (f holds its items) or something else
Dict(f)    == [t |-> "dict", f |-> f,    v |-> <<>>]
StrItem(s) == [t |-> "str",  f |-> <<>>, v |-> s]
NullItem   == [t |-> "null", f |-> <<>>, v |-> <<>>]

\* a decoded body: items is what iterating over it yields
ListBody(seq) == [t |-> "list", items |-> seq, n |-> 0]
DictBody(ks)  == [t |-> "dict", items |-> [j \in DOMAIN ks |-> StrItem(ks[j])], n |-> 0]
StrBody(s)    == [t |-> "str",  items |-> [j \in DOMAIN s |-> StrItem(<<s[j]>>)], n |-> 0]
IntBody(n)    == [t |-> "int",  items |-> <<>>, n |-> n]
BoolBody(b)   == [t |-> "bool", items |-> <<>>, n |-> IF b THEN 1 ELSE 0]
NoneVal       == [t |-> "null", items |-> <<>>, n |-> 0]

\* bool(x), as `if not data` takes it
Truthy(b) ==
    CASE b.t \in {"list", "dict", "str"} -> b.items # <<>>
      [] b.t \in {"int", "bool"}         -> b.n # 0
      [] OTHER                           -> FALSE

\* iter(x) succeeds
Iterable(b) == b.t \in {"list", "dict", "str"}

\* dict.get(key, default)
Get(rec, key, default) ==
    IF key \in DOMAIN rec.f THEN rec.f[key] ELSE default

----------------------------------------------------------------------------
(* F1DriverAPI._make_request *)

BASE_URL == "https://api.openf1.org/v1"

\* the exception classes the GET, the status check and the decode raise
RequestExceptions ==
    {"ConnectionError", "Timeout", "HTTPError", "requests.JSONDecodeError"}
JSONDecodeErrors == {"requests.JSONDecodeError", "json.JSONDecodeError"}

\* isinstance(e, cls) for the classes named in except clauses
IsInstance(e, cls) ==
    CASE cls = "RequestException" -> e \in RequestExceptions
      [] cls = "JSONDecodeError"  -> e \in JSONDecodeErrors
      [] cls = "Exception"        -> e # "none"
      [] OTHER                    -> e = cls

\* response.raise_for_status(): HTTPError for a 4xx or 5xx status only
RaiseForStatus(status) ==
    IF 400 <= status /\ status < 600 THEN "HTTPError" ELSE "none"

\* (variant: the second except clause is missing)
RequestHandlersNoJson == {"RequestException"}
\* (variant: the first except clause is missing)
RequestHandlersNoRequest == {"JSONDecodeError"}
\* the except clauses of _make_request
RequestHandlers == {"RequestException", "JSONDecodeError"}

\* the exception the try block of _make_request ends with, "none" if it returns
TryRequest(outcome) ==
    IF outcome.kind # "response" THEN outcome.kind
    ELSE IF RaiseForStatus(outcome.status) # "none"
         THEN RaiseForStatus(outcome.status)
    ELSE outcome.json

\* (variant: a failed GET is tried again)
AttemptsRetry(outcome) == IF TryRequest(outcome) = "none" THEN 1 ELSE 2
\* how many times _make_request calls session.get
Attempts(outcome) == 1

\* _make_request(endpoint, params) when the GET does `outcome`:
\* the value returned, the lines printed, the exception that escapes and
\* the GETs issued
MakeRequest(endpoint, params, outcome) ==
    LET e    == TryRequest(outcome)
        call == [url |-> <<BASE_URL, endpoint>>, params |-> params]
        gets == [n \in 1..Attempts(outcome) |-> call]
    IN  IF e = "none"
        THEN [ret |-> outcome.body, log |-> <<>>, exc |-> "none", calls |-> gets]
        ELSE IF "RequestException" \in RequestHandlers /\ IsInstance(e, "RequestException")
        THEN [ret |-> NoneVal, log |-> <<"Error making request">>,
              exc |-> "none", calls |-> gets]
        ELSE IF "JSONDecodeError" \in RequestHandlers /\ IsInstance(e, "JSONDecodeError")
        THEN [ret |-> NoneVal, log |-> <<"Error parsing JSON response">>,
              exc |-> "none", calls |-> gets]
        ELSE [ret |-> NoneVal, log |-> <<>>, exc |-> e, calls |-> gets]

----------------------------------------------------------------------------
(* F1DriverAPI.search_drivers_by_name *)

SearchParams == [session_key |-> "latest"]

DriverKeys == {"driver_number", "first_name", "last_name", "team_name",
               "team_colour", "country_code", "headshot_url"}

\* (variant: the operands of `in` are exchanged)
EvalMatchReversed(nm, rec) ==
    IF rec.t # "dict" THEN "AttributeError"
    ELSE LET fn == Get(rec, "first_name", Str(<<>>))
             ln == Get(rec, "last_name", Str(<<>>))
         IN  IF fn.t # "str" THEN "AttributeError"
             ELSE IF Contains(Lower(fn.v), Lower(nm)) THEN "match"
             ELSE IF ln.t # "str" THEN "AttributeError"
             ELSE IF Contains(Lower(ln.v), Lower(nm)) THEN "match"
             ELSE "nomatch"
\* the condition of the if in the loop body: "match", "nomatch", or the
\* exception its evaluation raises.  `or` does not evaluate its right side
\* when the left side is true.
EvalMatch(nm, rec) ==
    IF rec.t # "dict" THEN "AttributeError"
    ELSE LET fn == Get(rec, "first_name", Str(<<>>))
             ln == Get(rec, "last_name", Str(<<>>))
         IN  IF fn.t # "str" THEN "AttributeError"
             ELSE IF Contains(Lower(nm), Lower(fn.v)) THEN "match"
             ELSE IF ln.t # "str" THEN "AttributeError"
             ELSE IF Contains(Lower(nm), Lower(ln.v)) THEN "match"
             ELSE "nomatch"

\* (variant: the first name is stored lowercased)
MakeDriverLowered(rec) ==
    [driver_number |-> Get(rec, "driver_number", Null),
     first_name    |-> LET fn == Get(rec, "first_name", Str(<<>>))
                       IN  IF fn.t = "str" THEN Str(Lower(fn.v)) ELSE fn,
     last_name     |-> Get(rec, "last_name", Str(<<>>)),
     team_name     |-> Get(rec, "team_name", Str(<<>>)),
     team_colour   |-> Get(rec, "team_colour", Str(<<>>)),
     country_code  |-> Get(rec, "country_code", Str(<<>>)),
     headshot_url  |-> Get(rec, "headshot_url", Str(<<>>))]
\* Driver(driver_number=driver_data.get('driver_number'), ...)
MakeDriver(rec) ==
    [driver_number |-> Get(rec, "driver_number", Null),
     first_name    |-> Get(rec, "first_name", Str(<<>>)),
     last_name     |-> Get(rec, "last_name", Str(<<>>)),
     team_name     |-> Get(rec, "team_name", Str(<<>>)),
     team_colour   |-> Get(rec, "team_colour", Str(<<>>)),
     country_code  |-> Get(rec, "country_code", Str(<<>>)),
     headshot_url  |-> Get(rec, "headshot_url", Str(<<>>))]

\* (variant: drivers.insert(0, d))
AppendFront(ds, d) == <<d>> \o ds
\* drivers.append(d)
AppendDriver(ds, d) == Append(ds, d)

\* (variant: except AttributeError)
SearchHandlersAttrOnly == {"AttributeError"}
\* except (AttributeError, TypeError)
SearchHandlers == {"AttributeError", "TypeError"}

\* (variant: the except clause returns what the loop has built)
PartialResult(ds) == ds
\* the value the except clause returns
OnParseError(ds) == <<>>

----------------------------------------------------------------------------
(* create_html, open_in_browser *)

\* the fields of the driver the page shows
CreateHtml(d) ==
    [title  |-> <<d.first_name, d.last_name>>,
     colour |-> d.team_colour,
     img    |-> d.headshot_url,
     number |-> d.driver_number,
     team   |-> d.team_name,
     nation |-> d.country_code]

\* what writing the file and launching the browser can do
Launches == {"ok", "OSError", "webbrowser.Error"}

\* (variant: no except clause)
BrowserHandlersNone == {}
\* the except clause of open_in_browser
BrowserHandlers == {"Exception"}

\* open_in_browser(html) when the launch does `launch`
OpenInBrowser(html, launch) ==
    IF launch = "ok" THEN [log |-> <<>>, exc |-> "none"]
    ELSE IF \E c \in BrowserHandlers : IsInstance(launch, c)
    THEN [log |-> <<"Error opening browser">>, exc |-> "none"]
    ELSE [log |-> <<>>, exc |-> launch]

----------------------------------------------------------------------------
(* The inputs: server behaviours and queries *)

sMax        == <<"M","a","x">>
sVerstappen == <<"V","e","r","s","t","a","p","p","e","n">>
sLewis      == <<"L","e","w","i","s">>
sHamilton   == <<"H","a","m","i","l","t","o","n">>

MaxVerstappen ==
    Dict([driver_number |-> Num(<<"3","3">>),
          first_name    |-> Str(sMax),
          last_name     |-> Str(sVerstappen),
          team_name     |-> Str(<<"R","B">>),
          team_colour   |-> Str(<<"#","3","6">>),
          country_code  |-> Str(<<"N","E","D">>),
          headshot_url  |-> Str(<<"/","v">>)])
\* the record of the repository's test
LewisHamilton ==
    Dict([driver_number |-> Num(<<"1">>),
          first_name    |-> Str(sLewis),
          last_name     |-> Str(sHamilton),
          team_name     |-> Str(<<"M","e","r","c","e","d","e","s">>),
          team_colour   |-> Str(<<"#","0","0","D","2","B","E">>),
          country_code  |-> Str(<<"G","B","R">>),
          headshot_url  |-> Str(<<"h","t","t","p","s",":","/","/",
                               "e","x","a","m","p","l","e",".","c","o","m","/",
                               "h","a","m","i","l","t","o","n",".","j","p","g">>)])
OnlyFirst    == Dict([first_name |-> Str(sMax)])
OnlyLast     == Dict([last_name |-> Str(sHamilton)])
NullFirst    == Dict([first_name |-> Null, last_name |-> Str(sVerstappen)])
NullLast     == Dict([first_name |-> Str(sMax), last_name |-> Null,
                      driver_number |-> Null])

\* the roster elements the server sends
Records == {MaxVerstappen, LewisHamilton, OnlyFirst, OnlyLast, NullFirst,
            NullLast, StrItem(sMax), NullItem}

Rosters == UNION {[1..n -> Records] : n \in 0..MaxRoster}

sDetail == <<"d","e","t","a","i","l">>

\* the decoded bodies that are not lists
OtherBodies == {NoneVal, DictBody(<<sDetail>>), DictBody(<<>>),
                StrBody(<<"o","k">>), StrBody(<<>>),
                IntBody(0), IntBody(5), BoolBody(TRUE), BoolBody(FALSE)}

Response(status, json, body) ==
    [kind |-> "response", status |-> status, json |-> json, body |-> body]
Failure(e) == [kind |-> e, status |-> 0, json |-> "none", body |-> NoneVal]

\* what one GET can do: fail in the network, or answer with a status and a
\* body that decodes or does not
Outcomes ==
    {Failure(e) : e \in {"ConnectionError", "Timeout"}}
    \cup {Response(200, "none", ListBody(r)) : r \in Rosters}
    \cup {Response(200, "none", b) : b \in OtherBodies}
    \cup {Response(st, j, NoneVal) :
            st \in {200, 204, 300, 404, 500},
            j \in {"requests.JSONDecodeError", "json.JSONDecodeError"}}
    \cup {Response(st, "none", b) :
            st \in {201, 300, 404, 500},
            b \in {ListBody(<<MaxVerstappen>>), DictBody(<<sDetail>>)}}

Queries == {<<>>, <<"m","a","x">>, sMax, <<"m","a","x"," ","v","e","r">>,
            <<"H","A","M">>, sLewis,
            <<"n","o","n","e","x","i","s","t","e","n","t">>}

Choices == {"1", "2", "3", ""}

----------------------------------------------------------------------------
(* The state machine *)

NoResp == Failure("none")

Init ==
    /\ mode \in {"cli", "api"}
    /\ mpc = IF mode = "cli" THEN "menu" ELSE "idle"
    /\ choice = "none"
    /\ name = <<>>
    /\ spc = "idle"
    /\ resp = NoResp
    /\ data = NoneVal
    /\ i = 0
    /\ drivers = <<>>
    /\ src = <<>>
    /\ result = <<>>
    /\ reqs = <<>>
    /\ log = <<>>
    /\ exc = "none"
    /\ found = <<>>
    /\ k = 0
    /\ opened = <<>>

\* the state of a call of search_drivers_by_name(nm) that has just begun
Enter(nm) ==
    /\ name' = nm
    /\ spc' = "request"
    /\ resp' = NoResp
    /\ data' = NoneVal
    /\ i' = 0
    /\ drivers' = <<>>
    /\ src' = <<>>
    /\ result' = <<>>
    /\ reqs' = <<>>
    /\ exc' = "none"

\* a test calls api.search_drivers_by_name(nm)
ApiCall ==
    /\ mode = "api" /\ mpc = "idle"
    /\ \E nm \in Queries : Enter(nm)
    /\ mpc' = "search"
    /\ log' = <<>>
    /\ UNCHANGED <<mode, choice, found, k, opened>>

\* the call returns (or raises) to the test, which drops what it got
ApiReturn ==
    /\ mode = "api" /\ mpc = "search"
    /\ spc \in {"returned", "raised"}
    /\ mpc' = "idle"
    /\ name' = <<>>
    /\ spc' = "idle"
    /\ resp' = NoResp
    /\ data' = NoneVal
    /\ i' = 0
    /\ drivers' = <<>>
    /\ src' = <<>>
    /\ result' = <<>>
    /\ reqs' = <<>>
    /\ log' = <<>>
    /\ exc' = "none"
    /\ UNCHANGED <<mode, choice, found, k, opened>>

\* data = self._make_request('drivers', params)
Request ==
    /\ spc = "request"
    /\ \E o \in Outcomes :
         LET r == MakeRequest("drivers", SearchParams, o)
         IN  /\ resp' = o
             /\ reqs' = reqs \o r.calls
             /\ log' = log \o r.log
             /\ data' = r.ret
             /\ exc' = r.exc
             /\ spc' = IF r.exc = "none" THEN "check" ELSE "raised"
    /\ UNCHANGED <<mode, mpc, choice, name, i, drivers, src, result, found, k,
                   opened>>

\* the outcome of an exception e raised inside the try block of the search
Raise(e) ==
    IF \E c \in SearchHandlers : IsInstance(e, c)
    THEN /\ log' = Append(log, "Error parsing driver data")
         /\ result' = OnParseError(drivers)
         /\ src' = OnParseError(src)
         /\ spc' = "returned"
         /\ exc' = "none"
    ELSE /\ spc' = "raised"
         /\ exc' = e
         /\ UNCHANGED <<log, result, src>>

\* if not data: ... return []; otherwise drivers = [] and the loop begins
Check ==
    /\ spc = "check"
    /\ IF ~Truthy(data)
       THEN /\ log' = Append(log, "Error fetching driver list")
            /\ result' = <<>>
            /\ spc' = "returned"
            /\ UNCHANGED <<i, drivers, src, exc>>
       ELSE IF ~Iterable(data)
       THEN /\ Raise("TypeError")
            /\ UNCHANGED <<i, drivers>>
       ELSE /\ i' = 1
            /\ drivers' = <<>>
            /\ spc' = "loop"
            /\ UNCHANGED <<src, result, log, exc>>
    /\ UNCHANGED <<mode, mpc, choice, name, resp, data, reqs, found, k, opened>>

\* one iteration of `for driver_data in data`
Loop ==
    /\ spc = "loop" /\ i <= Len(data.items)
    /\ LET rec == data.items[i]
           m   == EvalMatch(name, rec)
       IN  CASE m = "match" ->
                  /\ drivers' = AppendDriver(drivers, MakeDriver(rec))
                  /\ src' = AppendDriver(src, i)
                  /\ i' = i + 1
                  /\ UNCHANGED <<spc, result, log, exc>>
             [] m = "nomatch" ->
                  /\ i' = i + 1
                  /\ UNCHANGED <<drivers, src, spc, result, log, exc>>
             [] OTHER ->
                  /\ Raise(m)
                  /\ UNCHANGED <<i, drivers>>
    /\ UNCHANGED <<mode, mpc, choice, name, resp, data, reqs, found, k, opened>>

\* return drivers
Return ==
    /\ spc = "loop" /\ i > Len(data.items)
    /\ result' = drivers
    /\ spc' = "returned"
    /\ UNCHANGED <<mode, mpc, choice, name, resp, data, i, drivers, src, reqs,
                   log, exc, found, k, opened>>

----------------------------------------------------------------------------
(* main *)

\* choice = input(...), and for '1' name = input(...).lower() and the call
MenuChoice ==
    /\ mode = "cli" /\ mpc = "menu"
    /\ \E c \in Choices :
         /\ choice' = c
         /\ CASE c = "1" ->
                   /\ \E q \in Queries : Enter(Lower(q))
                   /\ mpc' = "search"
                   /\ log' = <<"Searching">>
              [] c = "2" ->
                   /\ mpc' = "exited"
                   /\ log' = <<"Goodbye!">>
                   /\ UNCHANGED <<name, spc, resp, data, i, drivers, src,
                                  result, reqs, exc>>
              [] OTHER ->
                   /\ mpc' = "pause"
                   /\ UNCHANGED <<name, spc, resp, data, i, drivers, src,
                                  result, reqs, exc, log>>
    /\ UNCHANGED <<mode, found, k, opened>>

\* drivers = api.search_drivers_by_name(name) has returned: if drivers: ...
SearchDone ==
    /\ mode = "cli" /\ mpc = "search"
    /\ spc \in {"returned", "raised"}
    /\ IF spc = "raised"
       THEN /\ mpc' = "crashed"
            /\ UNCHANGED <<found, k, log>>
       ELSE /\ found' = result
            /\ IF result # <<>>
               THEN /\ log' = Append(log, "Found matching drivers")
                    /\ k' = 1
                    /\ mpc' = "render"
               ELSE /\ log' = Append(log, "No drivers found with that name")
                    /\ k' = k
                    /\ mpc' = "pause"
    /\ UNCHANGED <<mode, choice, name, spc, resp, data, i, drivers, src,
                   result, reqs, exc, opened>>

\* one iteration of `for driver in drivers`: create_html, open_in_browser
Render ==
    /\ mode = "cli" /\ mpc = "render" /\ k <= Len(found)
    /\ \E l \in Launches :
         LET html == CreateHtml(found[k])
             r    == OpenInBrowser(html, l)
         IN  /\ opened' = Append(opened, html)
             /\ log' = log \o r.log
             /\ exc' = r.exc
             /\ IF r.exc = "none"
                THEN /\ k' = k + 1
                     /\ mpc' = IF k = Len(found) THEN "pause" ELSE "render"
                ELSE /\ k' = k
                     /\ mpc' = "crashed"
    /\ UNCHANGED <<mode, choice, name, spc, resp, data, i, drivers, src,
                   result, reqs, found>>

\* input("Press Enter to continue..."), then the menu again
Continue ==
    /\ mode = "cli" /\ mpc = "pause"
    /\ mpc' = "menu"
    /\ name' = <<>>
    /\ spc' = "idle"
    /\ resp' = NoResp
    /\ data' = NoneVal
    /\ i' = 0
    /\ drivers' = <<>>
    /\ src' = <<>>
    /\ result' = <<>>
    /\ reqs' = <<>>
    /\ log' = <<>>
    /\ exc' = "none"
    /\ found' = <<>>
    /\ k' = 0
    /\ opened' = <<>>
    /\ UNCHANGED <<mode, choice>>

Next ==
    \/ ApiCall
    \/ ApiReturn
    \/ Request
    \/ Check
    \/ Loop
    \/ Return
    \/ MenuChoice
    \/ SearchDone
    \/ Render
    \/ Continue

Spec == Init /\ [][Next]_vars

----------------------------------------------------------------------------
(* The properties *)

Range(f) == {f[n] : n \in DOMAIN f}

\* the roster of the current call
Roster == data.items

\* the call has returned a list built from a fetched list
ReturnedFromList == spc = "returned" /\ data.t = "list"

\* str.strip() for the blank
RECURSIVE StripLeft(_)
StripLeft(s) ==
    IF s # <<>> /\ Head(s) = " " THEN StripLeft(Tail(s)) ELSE s
RECURSIVE StripRight(_)
StripRight(s) ==
    IF s # <<>> /\ s[Len(s)] = " "
    THEN StripRight(SubSeq(s, 1, Len(s) - 1)) ELSE s
Strip(s) == StripRight(StripLeft(s))

\* the lowercased query is contained in the lowercased str value
NameContains(q, val) == val.t = "str" /\ Contains(Lower(q), Lower(val.v))

FirstOf(rec) == Get(rec, "first_name", Str(<<>>))
LastOf(rec)  == Get(rec, "last_name", Str(<<>>))

\* first_name + " " + last_name, trimmed
FullNameOf(rec) == Str(Strip(FirstOf(rec).v \o <<" ">> \o LastOf(rec).v))

\* the match predicate as the specification states it
SpecMatches(q, rec) ==
    /\ rec.t = "dict"
    /\ \/ NameContains(q, FirstOf(rec))
       \/ NameContains(q, LastOf(rec))
       \/ /\ FirstOf(rec).t = "str" /\ LastOf(rec).t = "str"
          /\ NameContains(q, FullNameOf(rec))

\* a record whose name fields are strings or missing
WellFormed(rec) ==
    rec.t = "dict" /\ FirstOf(rec).t = "str" /\ LastOf(rec).t = "str"

\* a record on which the match condition cannot be evaluated
Erroring(q, rec) ==
    \/ rec.t # "dict"
    \/ FirstOf(rec).t # "str"
    \/ ~NameContains(q, FirstOf(rec)) /\ LastOf(rec).t # "str"

\* C1: completeness: with a fetched non-empty roster of well-formed
\* records, every record whose first name, last name or trimmed full name
\* contains the query (case-insensitively) is in the returned list.
Completeness ==
    (ReturnedFromList /\ Roster # <<>>
        /\ \A j \in DOMAIN Roster : WellFormed(Roster[j]))
    => \A j \in DOMAIN Roster :
           SpecMatches(name, Roster[j]) => j \in Range(src)

\* C2: soundness: every returned Driver was built from a roster record that
\* satisfies the match predicate; a query matching no record returns [].
Soundness ==
    spc = "returned" =>
        /\ Len(src) = Len(result)
        /\ \A n \in DOMAIN result :
              /\ src[n] \in DOMAIN Roster
              /\ SpecMatches(name, Roster[src[n]])
        /\ ((\A j \in DOMAIN Roster : ~SpecMatches(name, Roster[j]))
               => result = <<>>)

SoundnessWitness ==
    /\ ReturnedFromList
    /\ Len(result) = 1 /\ Len(Roster) = 2
    /\ \E j \in DOMAIN Roster : ~SpecMatches(name, Roster[j])

\* the GET failed: in the network, by a 4xx/5xx status, or in the decode
FetchFailed ==
    /\ resp # NoResp
    /\ \/ resp.kind # "response"
       \/ 400 <= resp.status /\ resp.status < 600
       \/ resp.json # "none"

\* C3: when the fetch fails or the fetched roster is empty the search
\* returns the empty list and does not raise.
EmptyOnFailure ==
    (spc \in {"returned", "raised"} /\ (FetchFailed \/ data = ListBody(<<>>)))
    => (spc = "returned" /\ result = <<>> /\ exc = "none")

EmptyOnFailureWitness ==
    /\ spc = "returned" /\ resp.kind = "response" /\ resp.status = 500
    /\ data = NoneVal /\ result = <<>>

\* the line was printed
Logged(line) == \E n \in DOMAIN log : log[n] = line

RequestErrorLogged ==
    Logged("Error making request") \/ Logged("Error parsing JSON response")

\* C4 as stated: _make_request never raises, returns the body for 2xx and
\* valid JSON, and None for every network failure, non-2xx status or
\* decode failure.
MakeRequestContract ==
    resp # NoResp =>
        /\ exc \notin (RequestExceptions \cup JSONDecodeErrors)
        /\ (resp.kind = "response" /\ resp.status \in 200..299
               /\ resp.json = "none") => data = resp.body
        /\ (resp.kind # "response" \/ resp.status \notin 200..299
               \/ resp.json # "none")
             => (data = NoneVal /\ RequestErrorLogged)

\* C4 amended: the status check fails for 4xx and 5xx only.
MakeRequestContractAmended ==
    resp # NoResp =>
        /\ exc \notin (RequestExceptions \cup JSONDecodeErrors)
        /\ (~FetchFailed => data = resp.body /\ ~RequestErrorLogged)
        /\ (FetchFailed => data = NoneVal /\ RequestErrorLogged)

MakeRequestWitness ==
    /\ spc = "check" /\ resp.kind = "response" /\ resp.status = 200
    /\ resp.json = "json.JSONDecodeError" /\ data = NoneVal

\* C5: the returned list follows the roster order and keeps duplicates:
\* the roster indices the Drivers were built from increase strictly, and
\* equal roster records are all in the result or all out of it.
OrderPreserved ==
    spc = "returned" =>
        /\ Len(src) = Len(result)
        /\ \A n \in DOMAIN src : src[n] \in DOMAIN Roster
        /\ \A a, b \in DOMAIN src : a < b => src[a] < src[b]
        /\ \A n \in DOMAIN result : result[n] = MakeDriver(Roster[src[n]])
        /\ \A a, b \in DOMAIN Roster :
              Roster[a] = Roster[b] => (a \in Range(src) <=> b \in Range(src))

OrderPreservedWitness ==
    /\ ReturnedFromList /\ Len(Roster) = 3 /\ src = <<1, 3>>
    /\ Roster[1] = Roster[3] /\ result[1] = result[2]

\* the value a missing key of the raw record gives the Driver
DefaultOf(key) == IF key = "driver_number" THEN Null ELSE Str(<<>>)

\* C6: each field of a returned Driver is the raw record's value of that
\* key, unchanged, and the default when the key is missing.
FieldsCopied ==
    spc = "returned" =>
        \A n \in DOMAIN result : \A key \in DriverKeys :
            LET rec == Roster[src[n]]
            IN  result[n][key] =
                    IF key \in DOMAIN rec.f THEN rec.f[key] ELSE DefaultOf(key)

FieldsCopiedWitness ==
    /\ ReturnedFromList /\ Len(result) = 2
    /\ Roster[src[1]] = OnlyFirst /\ Roster[src[2]] = MaxVerstappen
    /\ result[1].first_name = Str(sMax)
    /\ result[1].team_name = Str(<<>>)
    /\ result[1].driver_number = Null
    /\ result[2].team_name = Str(<<"R","B">>)

\* the decoded body has the wrong shape in a way evaluation runs into
Malformed(q, body) ==
    \/ body.t # "list"
    \/ \E j \in DOMAIN body.items : Erroring(q, body.items[j])

TheRequest == [url |-> <<BASE_URL, "drivers">>, params |-> [session_key |-> "latest"]]

\* C8: a call issues exactly one GET, to drivers with session_key latest,
\* before any matching and whatever the outcome.
OneRequest ==
    /\ spc = "request" => (reqs = <<>> /\ drivers = <<>> /\ i = 0)
    /\ spc \in {"check", "loop", "returned", "raised"} => reqs = <<TheRequest>>
    /\ spc = "idle" => reqs = <<>>

OneRequestWitness ==
    /\ spc = "returned" /\ resp.kind = "Timeout" /\ reqs = <<TheRequest>>

Pages(ds, n) == [m \in 1..n |-> CreateHtml(ds[m])]

\* C9: the loop ends only on choice '2'; choice '1' opens one page per
\* match, in result order, a failed launch stops nothing, no match opens
\* nothing and says so; any other choice searches nothing.
MenuLoop ==
    mode = "cli" =>
        /\ mpc \in {"menu", "search", "render", "pause", "exited"}
        /\ mpc = "exited" => choice = "2"
        /\ mpc = "render" =>
              (k \in 1..Len(found) /\ found = result /\ opened = Pages(found, k - 1))
        /\ (mpc = "pause" /\ choice = "1") =>
              /\ found = result
              /\ opened = Pages(result, Len(result))
              /\ result = <<>> =>
                    log[Len(log)] = "No drivers found with that name"
        /\ choice # "1" => (spc = "idle" /\ reqs = <<>> /\ opened = <<>>)
        /\ mpc \in {"menu", "search"} => opened = <<>>

MenuLoopWitness ==
    /\ mode = "cli" /\ mpc = "pause" /\ choice = "1"
    /\ Len(result) = 2 /\ Len(opened) = 2
    /\ log = <<"Searching", "Found matching drivers",
               "Error opening browser", "Error opening browser">>

\* C10: the result is never partial: one record that cannot be evaluated
\* empties it; a record matched by its first name is accepted with its
\* last name unread, whatever its type.
AllOrNothing ==
    ReturnedFromList =>
        /\ (\E j \in DOMAIN Roster : Erroring(name, Roster[j])) => result = <<>>
        /\ (\A j \in DOMAIN Roster : ~Erroring(name, Roster[j])) =>
              \A j \in DOMAIN Roster :
                  (Roster[j].t = "dict" /\ NameContains(name, FirstOf(Roster[j])))
                  => \E n \in DOMAIN result :
                        /\ src[n] = j
                        /\ result[n].last_name = LastOf(Roster[j])

AllOrNothingWitness ==
    /\ ReturnedFromList /\ Len(Roster) = 2 /\ result = <<>>
    /\ NameContains(name, FirstOf(Roster[1])) /\ ~Erroring(name, Roster[1])
    /\ Erroring(name, Roster[2])

====
